---- MODULE Spec2Model ----
(***************************************************************************)
(* Quran Mood Agent (src/app.py): the two request handlers, the payload    *)
(* extractor, the mood classifier and the two-stage response composer.     *)
(*                                                                         *)
(* Texts are sequences of units.  A unit is one character, written as a    *)
(* one-character string, except for four units that stand for markup the   *)
(* text cleaner treats as a whole: "&nbsp;" (the HTML entity), "<b>" and   *)
(* "</b>" (tags), and "NBSP" (the single character U+00A0).  The           *)
(* characters "&", "<" and ">" occur in no other way in the modelled       *)
(* inputs.                                                                 *)
(***************************************************************************)
EXTENDS Integers, Sequences, FiniteSets, TLC

VARIABLES
  pc,             \* where the request is in its handler
  endpoint,       \* "/" or "/agent"
  body,           \* the request body
  user_message,   \* the handler's user_message
  mood,           \* the handler's mood
  gemini_output,  \* get_smart_quran_response's gemini_output
  random_quote,   \* get_smart_quran_response's random_quote
  prompt,         \* the last prompt sent to the model
  calls,          \* the external calls made for this request, in order
  smart_response, \* what get_smart_quran_response returned
  resp            \* the response of the handler

vars == <<pc, endpoint, body, user_message, mood, gemini_output, random_quote,
          prompt, calls, smart_response, resp>>

-----------------------------------------------------------------------------
(* Texts *)

NBSP == "NBSP"

Whitespace == {" ", "\n", NBSP}

Tags == {"<b>", "</b>"}

UpperToLower ==
  [c \in {"A","B","C","D","E","F","G","H","I","J","K","L","M","N","O","P","Q",
          "R","S","T","U","V","W","X","Y","Z"} |->
     CASE c = "A" -> "a" [] c = "B" -> "b" [] c = "C" -> "c" [] c = "D" -> "d"
       [] c = "E" -> "e" [] c = "F" -> "f" [] c = "G" -> "g" [] c = "H" -> "h"
       [] c = "I" -> "i" [] c = "J" -> "j" [] c = "K" -> "k" [] c = "L" -> "l"
       [] c = "M" -> "m" [] c = "N" -> "n" [] c = "O" -> "o" [] c = "P" -> "p"
       [] c = "Q" -> "q" [] c = "R" -> "r" [] c = "S" -> "s" [] c = "T" -> "t"
       [] c = "U" -> "u" [] c = "V" -> "v" [] c = "W" -> "w" [] c = "X" -> "x"
       [] c = "Y" -> "y" [] c = "Z" -> "z"]

\* str.lower()
Lower(s) ==
  [i \in 1..Len(s) |-> IF s[i] \in DOMAIN UpperToLower THEN UpperToLower[s[i]] ELSE s[i]]

\* "sub in s"
Contains(s, sub) ==
  \E i \in 0..(Len(s) - Len(sub)) : SubSeq(s, i + 1, i + Len(sub)) = sub

RECURSIVE LStrip(_)
LStrip(s) ==
  IF s # <<>> /\ Head(s) \in Whitespace THEN LStrip(Tail(s)) ELSE s

RECURSIVE RStrip(_)
RStrip(s) ==
  IF s # <<>> /\ s[Len(s)] \in Whitespace THEN RStrip(SubSeq(s, 1, Len(s) - 1)) ELSE s

\* str.strip()
Strip(s) == RStrip(LStrip(s))

\* html.unescape, on the one entity the inputs hold
Unescape(s) == [i \in 1..Len(s) |-> IF s[i] = "&nbsp;" THEN NBSP ELSE s[i]]

\* The text nodes of the parsed markup: the maximal runs of units between tags.
RECURSIVE TextNodes(_, _)
TextNodes(s, cur) ==
  IF s = <<>> THEN <<cur>>
  ELSE IF Head(s) \in Tags THEN <<cur>> \o TextNodes(Tail(s), <<>>)
  ELSE TextNodes(Tail(s), Append(cur, Head(s)))

\* soup.get_text(separator=" ", strip=True): every text node stripped, the
\* empty ones dropped, the rest joined by one space.
RECURSIVE JoinStripped(_)
JoinStripped(nodes) ==
  IF nodes = <<>> THEN <<>>
  ELSE LET h == Strip(Head(nodes))
           r == JoinStripped(Tail(nodes))
       IN IF h = <<>> THEN r
          ELSE IF r = <<>> THEN h
          ELSE h \o <<" ">> \o r

GetText(s) == JoinStripped(TextNodes(s, <<>>))

\* cleaned.replace("\xa0", " ")
ReplaceNbsp(s) == [i \in 1..Len(s) |-> IF s[i] = NBSP THEN " " ELSE s[i]]

\* re.sub(r"\s+", " ", cleaned)
RECURSIVE CollapseWs(_)
CollapseWs(s) ==
  IF s = <<>> THEN <<>>
  ELSE IF Head(s) \in Whitespace
       THEN <<" ">> \o CollapseWs(LStrip(s))
       ELSE <<Head(s)>> \o CollapseWs(Tail(s))

\* clean_html_text on a str (None and "" give "")
clean_html_text(raw) ==
  IF raw = <<>> THEN <<>>
  ELSE CollapseWs(Strip(ReplaceNbsp(GetText(Unescape(raw)))))

-----------------------------------------------------------------------------
(* JSON values.  Every value is a record of one shape: t is its type, s its *)
(* text when it is a string, kv its members when it is a list (keys "") or  *)
(* an object (keys in insertion order, no key twice).                       *)

KV(k, v) == [k |-> k, v |-> v]

JNull == [t |-> "null", s |-> <<>>, kv |-> <<>>]

\* a non-zero number
JNum == [t |-> "num", s |-> <<>>, kv |-> <<>>]

JStr(s) == [t |-> "str", s |-> s, kv |-> <<>>]

JList(items) == [t |-> "list", s |-> <<>>, kv |-> [i \in 1..Len(items) |-> KV("", items[i])]]

JDict(members) == [t |-> "dict", s |-> <<>>, kv |-> members]

\* a request body that is not JSON at all: request.json() raises on it
NotJson == [t |-> "notjson", s |-> <<>>, kv |-> <<>>]

IsStr(v) == v.t = "str"

IsDict(v) == v.t = "dict"

IsList(v) == v.t = "list"

\* "k in d"
Has(d, k) == \E i \in 1..Len(d.kv) : d.kv[i].k = k

\* d.get(k): None when the key is absent
Get(d, k) ==
  IF Has(d, k) THEN d.kv[CHOOSE i \in 1..Len(d.kv) : d.kv[i].k = k].v ELSE JNull

\* Python truth of a value
Truthy(v) ==
  CASE v.t = "str" -> v.s # <<>>
    [] v.t = "num" -> TRUE
    [] v.t = "null" -> FALSE
    [] OTHER -> v.kv # <<>>

-----------------------------------------------------------------------------
(* Outcomes of a piece of code: it returns a value, it raises, or it falls  *)
(* through to the next statement.                                           *)

Ret(v) == [k |-> "ret", v |-> v]

Raise == [k |-> "raise", v |-> <<>>]

Fall == [k |-> "fall", v |-> <<>>]

\* clean_html_text(raw) for any value: a falsy raw gives "", a str is
\* cleaned, anything else raises (a number in html.unescape, a list or an
\* object in the markup parser, which takes text only).
CleanAny(raw) ==
  IF ~Truthy(raw) THEN Ret(<<>>)
  ELSE IF IsStr(raw) THEN Ret(clean_html_text(raw.s))
  ELSE Raise

\* Mutant of EntryRaw: content is read before text.
EntryRawContentFirst(entry) ==
  IF Truthy(Get(entry, "content")) THEN Get(entry, "content")
  ELSE IF Truthy(Get(entry, "text")) THEN Get(entry, "text")
  ELSE Get(entry, "message")

\* entry.get("text") or entry.get("content") or entry.get("message")
EntryRaw(entry) ==
  IF Truthy(Get(entry, "text")) THEN Get(entry, "text")
  ELSE IF Truthy(Get(entry, "content")) THEN Get(entry, "content")
  ELSE Get(entry, "message")

\* The loop over reversed(inner), from index i down.
RECURSIVE ScanInner(_, _)
ScanInner(inner, i) ==
  IF i = 0 THEN Fall
  ELSE LET entry == inner.kv[i].v IN
       IF ~IsDict(entry) THEN ScanInner(inner, i - 1)
       ELSE LET c == CleanAny(EntryRaw(entry)) IN
            IF c.k = "raise" THEN Raise
            ELSE IF c.v # <<>> THEN c
            ELSE ScanInner(inner, i - 1)

\* 1) the double nested 'messages' shape
NestedStrategy(payload) ==
  IF ~IsDict(payload) THEN Raise
  ELSE LET outer == Get(payload, "messages") IN
       IF ~(IsList(outer) /\ outer.kv # <<>>) THEN Fall
       ELSE LET first == outer.kv[1].v IN
            IF ~IsDict(first) THEN Raise
            ELSE LET inner == Get(first, "messages") IN
                 IF IsList(inner) /\ inner.kv # <<>>
                 THEN ScanInner(inner, Len(inner.kv))
                 ELSE Fall

\* 3) the simple shapes
FlatStrategy(payload) ==
  IF Has(payload, "message") /\ IsStr(Get(payload, "message"))
  THEN Ret(clean_html_text(Get(payload, "message").s))
  ELSE IF Has(payload, "content") /\ IsStr(Get(payload, "content"))
  THEN Ret(clean_html_text(Get(payload, "content").s))
  ELSE IF Has(payload, "text") /\ IsStr(Get(payload, "text"))
  THEN Ret(clean_html_text(Get(payload, "text").s))
  ELSE Fall

\* collect_texts(obj); CollectFrom walks the members of obj from index i on.
RECURSIVE collect_texts(_), CollectFrom(_, _)
collect_texts(obj) ==
  IF IsDict(obj) \/ IsList(obj) THEN CollectFrom(obj, 1) ELSE <<>>

CollectFrom(obj, i) ==
  IF i > Len(obj.kv) THEN <<>>
  ELSE LET m == obj.kv[i] IN
       (IF IsDict(obj) /\ m.k = "text" /\ IsStr(m.v) /\ Strip(m.v.s) # <<>>
        THEN <<m.v.s>>
        ELSE collect_texts(m.v))
       \o CollectFrom(obj, i + 1)

\* 4) the scan of the whole payload
DeepStrategy(payload) ==
  LET all_texts == collect_texts(payload) IN
  IF all_texts # <<>> THEN Ret(clean_html_text(all_texts[Len(all_texts)])) ELSE Fall

\* extract_user_message_generic: the strategies in order, "" when none
\* returns and when anything raises.
extract_user_message_generic(payload) ==
  LET s1 == NestedStrategy(payload) IN
  IF s1.k = "raise" THEN <<>>
  ELSE IF s1.k = "ret" THEN s1.v
  ELSE LET s3 == FlatStrategy(payload) IN
       IF s3.k = "ret" THEN s3.v
       ELSE LET s4 == DeepStrategy(payload) IN
            IF s4.k = "ret" THEN s4.v ELSE <<>>

-----------------------------------------------------------------------------
(* Fixed texts of the program.  A sentence no modelled test looks inside is *)
(* one unit.                                                                *)

NoClearMessage == <<"I didn't receive a clear message. Please try again.">>

GreetingResponse == <<"Assalamu Alaikum! I am your Quran Mood Agent. Tell me how you're feeling, and I'll find a relevant Quranic verse for you.">>

UnknownMoodResponse == <<"I couldn't understand your mood. Please try expressing it more clearly so I can find a relevant Quran quote.">>

InternalErrorMessage == <<"An internal error occurred while processing your request.">>

MethodNotFoundMessage == <<"Method not found">>

InvalidVersionMessage == <<"Invalid JSON-RPC version. Must be '2.0'.">>

FetchApology == <<"I'm sorry, I couldn't fetch a Quran quote at this moment. Please try again later.">>

\* (the dash of the source text is written "-")
TailoredApology == <<"I'm sorry - couldn't get a tailored verse. Here's something to reflect on: ">>

Greetings == << <<"h", "e", "l", "l", "o">>, <<"h", "i">>, <<"h", "e", "y">> >>

NO_VERSE_FOUND == <<"N", "O", "_", "V", "E", "R", "S", "E", "_", "F", "O", "U", "N", "D">>

VerseLabel == <<"V", "e", "r", "s", "e", ":">>

ExplanationLabel == <<"E", "x", "p", "l", "a", "n", "a", "t", "i", "o", "n", ":">>

Unknown == <<"u", "n", "k", "n", "o", "w", "n">>

GreetingMood == <<"g", "r", "e", "e", "t", "i", "n", "g">>

\* the keys of MOOD_MAPPING, in their order
MOOD_MAPPING ==
  << <<"h", "a", "p", "p", "y">>,
     <<"s", "a", "d">>,
     <<"a", "n", "x", "i", "o", "u", "s">>,
     <<"a", "n", "g", "r", "y">>,
     <<"g", "r", "a", "t", "e", "f", "u", "l">>,
     <<"s", "t", "r", "e", "s", "s", "e", "d">>,
     <<"h", "o", "p", "e", "f", "u", "l">>,
     <<"f", "e", "a", "r", "f", "u", "l">>,
     <<"c", "a", "l", "m">>,
     <<"l", "o", "n", "e", "l", "y">>,
     <<"c", "o", "n", "f", "u", "s", "e", "d">>,
     <<"m", "o", "t", "i", "v", "a", "t", "e", "d">>,
     <<"t", "i", "r", "e", "d">>,
     <<"t", "h", "a", "n", "k", "f", "u", "l">>,
     <<"i", "n", "s", "p", "i", "r", "e", "d">> >>

-----------------------------------------------------------------------------
(* The external services *)

\* One call of an external service, as the log keeps it: who called, what,
\* whether the service answered (the model returned a text, the text API a
\* verse), and the text the caller got.
Call(by, fn, ok, out) == [by |-> by, fn |-> fn, ok |-> ok, out |-> out]

\* model.generate_content(prompt).text: a text, or an exception
ModelFailed == [ok |-> FALSE, text |-> <<>>]

ModelReply(text) == [ok |-> TRUE, text |-> text]

\* int to str
RECURSIVE Digits(_)
Digits(n) ==
  LET d == <<"0", "1", "2", "3", "4", "5", "6", "7", "8", "9">>[(n % 10) + 1]
  IN IF n < 10 THEN <<d>> ELSE Append(Digits(n \div 10), d)

\* f'"{text}" (Quran {surah_name}:{ayah_number})'
FormatQuote(text, surah_name, ayah_number) ==
  <<"\"">> \o text \o <<"\"", " ", "(", "Q", "u", "r", "a", "n", " ">>
    \o surah_name \o <<":">> \o Digits(ayah_number) \o <<")">>

\* Mutant of get_random_quran_quote: a failure gives no text at all.
get_random_quran_quote_or_nothing(api, pick) ==
  IF ~api.ok \/ pick = 0 THEN <<>>
  ELSE FormatQuote(api.ayahs[pick].text, api.englishName, api.ayahs[pick].numberInSurah)

\* get_random_quran_quote, given what the text API answered (ok = FALSE: a
\* network error, a non-success status or a malformed answer) and the index
\* random.choice drew (0 when there is no ayah to draw: IndexError).
get_random_quran_quote(api, pick) ==
  IF ~api.ok \/ pick = 0 THEN FetchApology
  ELSE FormatQuote(api.ayahs[pick].text, api.englishName, api.ayahs[pick].numberInSurah)

-----------------------------------------------------------------------------
(* Mood classifier *)

\* Mutant of ScanMoods: the label that occurs first in the reply wins.
ScanMoodsByPosition(response_text, i) ==
  LET at(l) == {k \in 0..(Len(response_text) - Len(l)) :
                  SubSeq(response_text, k + 1, k + Len(l)) = l}
      hits == {j \in i..Len(MOOD_MAPPING) : at(MOOD_MAPPING[j]) # {}}
      pos(j) == CHOOSE k \in at(MOOD_MAPPING[j]) : \A m \in at(MOOD_MAPPING[j]) : k <= m
  IN IF hits = {} THEN Unknown
     ELSE MOOD_MAPPING[CHOOSE j \in hits : \A m \in hits : pos(j) <= pos(m)]

\* for mood in MOOD_MAPPING.keys(): if mood in response_text: return mood
RECURSIVE ScanMoods(_, _)
ScanMoods(response_text, i) ==
  IF i > Len(MOOD_MAPPING) THEN Unknown
  ELSE IF Contains(response_text, MOOD_MAPPING[i]) THEN MOOD_MAPPING[i]
  ELSE ScanMoods(response_text, i + 1)

\* detect_mood_with_gemini, given the outcome of its model call
detect_mood_with_gemini(outcome) ==
  IF ~outcome.ok THEN Unknown
  ELSE ScanMoods(Lower(Strip(outcome.text)), 1)

-----------------------------------------------------------------------------
(* Response composer *)

\* Mutant of Stage1Accepted: the "Explanation:" label is not asked for.
Stage1AcceptedWithoutExplanation(output) ==
  /\ ~Contains(output, NO_VERSE_FOUND)
  /\ Contains(output, VerseLabel)

\* the success test of stage 1
Stage1Accepted(output) ==
  /\ ~Contains(output, NO_VERSE_FOUND)
  /\ Contains(output, VerseLabel)
  /\ Contains(output, ExplanationLabel)

\* prompt_direct_verse
PromptDirectVerse(m, um) ==
  <<"The user is feeling ">> \o m \o <<" because they said: ">> \o um
    \o <<"Provide a highly relevant Quranic verse ... If you cannot find a specific verse, just say 'NO_VERSE_FOUND'. ...">>

\* Mutant of PromptExplainRandom: the quotation is not put into the prompt.
PromptExplainWithoutQuote(m, um, quote) ==
  <<"The user is feeling ">> \o m \o <<" because they said: ">> \o um
    \o <<"Here is a Quranic verse: {random_quote}">>

\* prompt_explain_random
PromptExplainRandom(m, um, quote) ==
  <<"The user is feeling ">> \o m \o <<" because they said: ">> \o um
    \o <<"Here is a Quranic verse: ">> \o quote
    \o <<"Explain how this verse can be relevant or comforting to someone feeling {mood}. Format your response strictly as: Verse: ">>
    \o quote \o <<"Explanation:">>

\* the prompt of detect_mood_with_gemini
PromptMood(text) ==
  <<"Analyze the following text and identify the primary mood expressed. ... Text: ">>
    \o text \o <<"Mood:">>

-----------------------------------------------------------------------------
(* Request validation (pydantic) *)

\* TelexMessagePart(type: str, text: str)
ValidPart(v) ==
  /\ IsDict(v)
  /\ Has(v, "type") /\ IsStr(Get(v, "type"))
  /\ Has(v, "text") /\ IsStr(Get(v, "text"))

\* TelexMessageContent(role: str, parts: List[TelexMessagePart])
ValidContent(v) ==
  /\ IsDict(v)
  /\ Has(v, "role") /\ IsStr(Get(v, "role"))
  /\ Has(v, "parts") /\ IsList(Get(v, "parts"))
  /\ \A i \in 1..Len(Get(v, "parts").kv) : ValidPart(Get(v, "parts").kv[i].v)

\* TelexRpcParams(message: TelexMessageContent)
ValidParams(v) ==
  /\ IsDict(v)
  /\ Has(v, "message") /\ ValidContent(Get(v, "message"))

\* TelexRpcRequest(**request_body) on an object: jsonrpc a str when given,
\* method a str, id anything, params required
ValidRpcRequest(b) ==
  /\ Has(b, "jsonrpc") => IsStr(Get(b, "jsonrpc"))
  /\ Has(b, "method") /\ IsStr(Get(b, "method"))
  /\ Has(b, "params") /\ ValidParams(Get(b, "params"))

\* rpc_request.jsonrpc, with its default
RpcVersion(b) == IF Has(b, "jsonrpc") THEN Get(b, "jsonrpc").s ELSE <<"2", ".", "0">>

\* TelexInputMessage(kind: str, role: Optional[str], content: Optional[str])
ValidTelexInput(b) ==
  /\ IsDict(b)
  /\ Has(b, "kind") /\ IsStr(Get(b, "kind"))
  /\ Get(b, "role").t \in {"str", "null"}
  /\ Get(b, "content").t \in {"str", "null"}

\* SimpleMessageInput(message: str)
ValidSimpleMessage(b) ==
  /\ IsDict(b)
  /\ Has(b, "message") /\ IsStr(Get(b, "message"))

-----------------------------------------------------------------------------
(* The handlers up to their first external call *)

Resp(kind, status, code, text, m) ==
  [kind |-> kind, status |-> status, code |-> code, text |-> text, mood |-> m]

NoResp == Resp("none", 0, 0, <<>>, <<>>)

\* The exception left the handler: the handler itself produced no response.
Escaped == Resp("escaped", 0, 0, <<>>, <<>>)

\* A handler's front part either answers or goes on to the mood detection;
\* um is its user_message at that point ("" when it was never assigned).
Answer(r, um) == [k |-> "answer", resp |-> r, um |-> um]

GoOn(um) == [k |-> "go", resp |-> NoResp, um |-> um]

\* Mutant of IsGreeting: the message must start with the greeting.
IsGreetingAtStart(um) ==
  \E i \in 1..Len(Greetings) :
    /\ Len(um) >= Len(Greetings[i])
    /\ SubSeq(Lower(um), 1, Len(Greetings[i])) = Greetings[i]

\* any(g in text_lower for g in ["hello", "hi", "hey"])
IsGreeting(um) ==
  \E i \in 1..Len(Greetings) : Contains(Lower(um), Greetings[i])

\* the first part with type "text" and a non-empty text, cleaned
RECURSIVE FirstTextPart(_, _)
FirstTextPart(parts, i) ==
  IF i > Len(parts.kv) THEN <<>>
  ELSE LET part == parts.kv[i].v IN
       IF Get(part, "type").s = <<"t", "e", "x", "t">> /\ Get(part, "text").s # <<>>
       THEN clean_html_text(Get(part, "text").s)
       ELSE FirstTextPart(parts, i + 1)

\* handle_message_send up to the mood detection
MessageSendFront(params) ==
  LET um == FirstTextPart(Get(Get(params, "message"), "parts"), 1) IN
  IF um = <<>> \/ Strip(um) = <<>>
  THEN Answer(Resp("rpc_error", 400, 400, NoClearMessage, <<>>), um)
  ELSE IF IsGreeting(um)
  THEN Answer(Resp("rpc_result", 200, 0, GreetingResponse, <<>>), um)
  ELSE GoOn(um)

\* handle_telex_rpc_request up to the mood detection.  When request.json()
\* raises, request_body is unbound in the except clause; when the body is not
\* an object, it has no get: the except clause raises in both cases.
TelexFront(b) ==
  IF b = NotJson \/ ~IsDict(b) THEN Answer(Escaped, <<>>)
  ELSE IF ~ValidRpcRequest(b)
  THEN Answer(Resp("rpc_error", 500, 500, InternalErrorMessage, <<>>), <<>>)
  ELSE IF RpcVersion(b) # <<"2", ".", "0">>
  THEN Answer(Resp("rpc_error", 400, -32600, InvalidVersionMessage, <<>>), <<>>)
  ELSE IF Get(b, "method").s = <<"m", "e", "s", "s", "a", "g", "e", "/", "s", "e", "n", "d">>
  THEN MessageSendFront(Get(b, "params"))
  ELSE Answer(Resp("rpc_error", 405, -32601, MethodNotFoundMessage, <<>>), <<>>)

\* the three parses of agent_endpoint
AgentUserMessage(b) ==
  IF ValidTelexInput(b) /\ Truthy(Get(b, "content"))
  THEN clean_html_text(Get(b, "content").s)
  ELSE IF ValidSimpleMessage(b)
  THEN clean_html_text(Get(b, "message").s)
  ELSE extract_user_message_generic(b)

\* agent_endpoint up to the mood detection
AgentFront(b) ==
  IF b = NotJson
  THEN Answer(Resp("generic_error", 500, 500, InternalErrorMessage, <<>>), <<>>)
  ELSE LET um == AgentUserMessage(b) IN
       IF um = <<>> \/ Strip(um) = <<>>
       THEN Answer(Resp("generic_error", 400, 400, NoClearMessage, <<>>), um)
       ELSE IF IsGreeting(um)
       THEN Answer(Resp("generic", 200, 0, GreetingResponse, GreetingMood), um)
       ELSE GoOn(um)

\* the handler's response carrying a text
TextResponse(ep, text, m) ==
  IF ep = "/" THEN Resp("rpc_result", 200, 0, text, <<>>)
  ELSE Resp("generic", 200, 0, text, m)

-----------------------------------------------------------------------------
(* Bounds and inputs *)

\* the most parts a message/send request carries
MaxParts == 2

\* the most entries the inner 'messages' list of a payload carries
MaxInner == 2

\* the most ayahs a surah of the text API holds
MaxAyahs == 2

\* all sequences over a set, up to a length
SeqsUpTo(set, n) == UNION {[1..k -> set] : k \in 0..n}

TextPart(text) == JDict(<<KV("type", JStr(<<"t", "e", "x", "t">>)), KV("text", JStr(text))>>)

PartTexts == {<<>>, <<"&nbsp;">>, <<"<b>", "H", "e", "y", "</b>">>, <<"t", "h", "i", "s">>, <<"s", "o", "&nbsp;", "s", "a", "d">>}

PartSet ==
  {TextPart(t) : t \in PartTexts}
    \cup {JDict(<<KV("type", JStr(<<"i", "m", "a", "g", "e">>)), KV("text", JStr(<<"h", "e", "y">>))>>),
          JDict(<<KV("type", JStr(<<"t", "e", "x", "t">>))>>)}

ParamsSet ==
  {JDict(<<KV("message", JDict(<<KV("role", JStr(<<"u", "s", "e", "r">>)), KV("parts", JList(ps))>>))>>) :
     ps \in SeqsUpTo(PartSet, MaxParts)}
    \cup {JDict(<<>>)}

\* an object of the members that are given (absent ones are JNull here)
RECURSIVE Given(_)
Given(members) ==
  IF members = <<>> THEN <<>>
  ELSE IF Head(members).v = JNull THEN Given(Tail(members))
  ELSE <<Head(members)>> \o Given(Tail(members))

Obj(members) == JDict(Given(members))

RpcBodies ==
  {Obj(<<KV("jsonrpc", v), KV("id", JNum), KV("method", m), KV("params", ps)>>) :
     v \in {JNull, JStr(<<"2", ".", "0">>), JStr(<<"1", ".", "0">>), JNum},
     m \in {JNull, JStr(<<"m", "e", "s", "s", "a", "g", "e", "/", "s", "e", "n", "d">>), JStr(<<"t", "a", "s", "k", "s", "/", "g", "e", "t">>)},
     ps \in ParamsSet \cup {JNull}}
    \cup {NotJson, JList(<<>>), JStr(<<"h", "i">>)}

InnerEntries ==
  {JDict(<<KV("text", JStr(<<"a">>))>>),
   JDict(<<KV("text", JStr(<<>>)), KV("content", JStr(<<"b">>))>>),
   JDict(<<KV("text", JStr(<<"&nbsp;">>)), KV("content", JStr(<<"c">>))>>),
   JDict(<<KV("message", JStr(<<"<b>", "m", "</b>">>))>>),
   JDict(<<KV("text", JNum)>>),
   JDict(<<>>),
   JStr(<<"z">>)}

MessagesSet ==
  {JList(<<JDict(<<KV("messages", JList(inner))>>)>>) : inner \in SeqsUpTo(InnerEntries, MaxInner)}
    \cup {JNull, JList(<<>>), JList(<<JNum>>), JList(<<JDict(<<>>)>>), JStr(<<"x">>)}

ExtraSet ==
  {JNull,
   JDict(<<KV("text", JStr(<<"d">>))>>),
   JList(<<JDict(<<KV("text", JStr(<<"e">>))>>),
           JDict(<<KV("text", JDict(<<KV("text", JStr(<<"<b>", "f", "</b>">>))>>))>>),
           JDict(<<KV("text", JStr(<<" ">>))>>)>>)}

\* the payloads extract_user_message_generic is checked on
Payloads ==
  {Obj(<<KV("messages", ms), KV("message", m), KV("content", c), KV("text", t), KV("data", x)>>) :
     ms \in MessagesSet,
     m \in {JNull, JStr(<<"h", "e", "l", "l", "o">>), JNum},
     c \in {JNull, JStr(<<"&nbsp;">>)},
     t \in {JNull, JStr(<<"t">>), JNum},
     x \in ExtraSet}
    \cup {JList(<<JDict(<<KV("text", JStr(<<"a">>))>>)>>), JStr(<<"a">>), JNum}

\* the bodies sent to /agent
AgentBodies ==
  {Obj(<<KV("kind", k), KV("content", c), KV("message", m), KV("data", x)>>) :
     k \in {JNull, JStr(<<"m", "e", "s", "s", "a", "g", "e">>)},
     c \in {JNull, JStr(<<"<b>", "H", "e", "y", "</b>">>), JStr(<<"s", "o", "&nbsp;", "s", "a", "d">>), JStr(<<"&nbsp;">>)},
     m \in {JNull, JStr(<<"t", "h", "i", "s">>), JStr(<<"s", "a", "d">>), JNum},
     x \in {JNull, JDict(<<KV("text", JStr(<<"t", "i", "r", "e", "d">>))>>)}}
    \cup {Obj(<<KV("messages", JList(<<first>>)), KV("text", JStr(<<"t">>))>>) :
            first \in {JNum} \cup
              {JDict(<<KV("messages", JList(inner))>>) :
                 inner \in SeqsUpTo({JDict(<<KV("text", JStr(<<"h", "e", "y">>))>>),
                                     JDict(<<KV("text", JStr(<<"s", "a", "d">>))>>)}, MaxInner)}}
    \cup {NotJson, JList(<<>>), JStr(<<"h", "i">>)}

MoodReplies ==
  {<<"I", " ", "t", "h", "i", "n", "k", " ", "t", "h", "e", " ", "u", "s", "e", "r", " ", "f", "e", "e", "l", "s", " ", "v", "e", "r", "y", " ", "H", "a", "p", "p", "y", " ", "t", "o", "d", "a", "y">>,
   <<"n", "e", "u", "t", "r", "a", "l">>,
   <<"s", "a", "d", " ", "a", "n", "d", " ", "h", "a", "p", "p", "y">>,
   <<"t", "h", "a", "n", "k", "f", "u", "l", ",", " ", "g", "r", "a", "t", "e", "f", "u", "l">>,
   <<" ", "S", "A", "D", "\n">>}

Stage1Replies ==
  {<<" ", "V", "e", "r", "s", "e", ":", " ", "a", "\n", "E", "x", "p", "l", "a", "n", "a", "t", "i", "o", "n", ":", " ", "b", "\n">>,
   <<"N", "O", "_", "V", "E", "R", "S", "E", "_", "F", "O", "U", "N", "D">>,
   <<"V", "e", "r", "s", "e", ":", " ", "a">>,
   <<"E", "x", "p", "l", "a", "n", "a", "t", "i", "o", "n", ":", " ", "b">>,
   <<"V", "e", "r", "s", "e", ":", " ", "a", " ", "E", "x", "p", "l", "a", "n", "a", "t", "i", "o", "n", ":", " ", "b", " ", "N", "O", "_", "V", "E", "R", "S", "E", "_", "F", "O", "U", "N", "D">>,
   <<"v", "e", "r", "s", "e", ":", " ", "a", " ", "e", "x", "p", "l", "a", "n", "a", "t", "i", "o", "n", ":", " ", "b">>}

\* the replies to the second prompt: one that ignores the quotation, one
\* that repeats it
Stage2Replies(quote) ==
  {<<"V", "e", "r", "s", "e", ":", " ", "q", "\n", "E", "x", "p", "l", "a", "n", "a", "t", "i", "o", "n", ":", " ", "c", " ">>,
   <<"V", "e", "r", "s", "e", ":", " ">> \o quote \o <<"\n", "E", "x", "p", "l", "a", "n", "a", "t", "i", "o", "n", ":", " ", "c">>}

ModelOutcomes(replies) == {ModelFailed} \cup {ModelReply(r) : r \in replies}

ApiFailed == [ok |-> FALSE, englishName |-> <<>>, ayahs |-> <<>>]

Surah(n) ==
  [ok |-> TRUE, englishName |-> <<"N", "u", "h">>,
   ayahs |-> [i \in 1..n |-> [text |-> <<"v">> \o Digits(i), numberInSurah |-> i]]]

ApiAnswers == {ApiFailed} \cup {Surah(n) : n \in 0..MaxAyahs}

\* what random.choice(ayahs) can draw: 0 stands for its IndexError
Picks(api) == IF api.ok /\ api.ayahs # <<>> THEN 1..Len(api.ayahs) ELSE {0}

-----------------------------------------------------------------------------
(* The service: one request at a time, from its arrival to its response *)

Init ==
  /\ pc = "idle"
  /\ endpoint = ""
  /\ body = JNull
  /\ user_message = <<>>
  /\ mood = <<>>
  /\ gemini_output = <<>>
  /\ random_quote = <<>>
  /\ prompt = <<>>
  /\ calls = <<>>
  /\ smart_response = <<>>
  /\ resp = NoResp

\* a request arrives at one of the two endpoints
Request ==
  /\ pc = "idle"
  /\ \E ep \in {"/", "/agent"} :
       /\ endpoint' = ep
       /\ body' \in (IF ep = "/" THEN RpcBodies ELSE AgentBodies)
  /\ pc' = "handler"
  /\ UNCHANGED <<user_message, mood, gemini_output, random_quote, prompt, calls,
                 smart_response, resp>>

\* a handler's front part: it answers, or goes on to the mood detection
Front(f) ==
  /\ user_message' = f.um
  /\ IF f.k = "answer"
     THEN /\ resp' = f.resp
          /\ pc' = "done"
     ELSE /\ pc' = "mood"
          /\ UNCHANGED resp
  /\ UNCHANGED <<endpoint, body, mood, gemini_output, random_quote, prompt, calls,
                 smart_response>>

\* handle_telex_rpc_request (with handle_message_send)
HandleTelexRpc ==
  /\ pc = "handler"
  /\ endpoint = "/"
  /\ Front(TelexFront(body))

\* agent_endpoint
HandleAgent ==
  /\ pc = "handler"
  /\ endpoint = "/agent"
  /\ Front(AgentFront(body))

\* mood = detect_mood_with_gemini(user_message), and the unknown-mood answer
DetectMood ==
  /\ pc = "mood"
  /\ \E o \in ModelOutcomes(MoodReplies) :
       /\ calls' = Append(calls, Call("detect_mood", "model", o.ok, o.text))
       /\ mood' = detect_mood_with_gemini(o)
  /\ prompt' = PromptMood(user_message)
  /\ IF mood' = Unknown
     THEN /\ resp' = TextResponse(endpoint, UnknownMoodResponse, Unknown)
          /\ pc' = "done"
     ELSE /\ pc' = "stage1"
          /\ UNCHANGED resp
  /\ UNCHANGED <<endpoint, body, user_message, gemini_output, random_quote,
                 smart_response>>

\* get_smart_quran_response returns text, and the handler wraps it
Return(text) ==
  /\ smart_response' = text
  /\ resp' = TextResponse(endpoint, text, mood)
  /\ pc' = "done"

\* get_smart_quran_response: the first model call and the success test
Stage1 ==
  /\ pc = "stage1"
  /\ prompt' = PromptDirectVerse(mood, user_message)
  /\ \E o \in ModelOutcomes(Stage1Replies) :
       /\ calls' = Append(calls, Call("composer", "model", o.ok, o.text))
       /\ IF ~o.ok
          THEN /\ pc' = "except"
               /\ UNCHANGED <<gemini_output, smart_response, resp>>
          ELSE /\ gemini_output' = Strip(o.text)
               /\ IF Stage1Accepted(gemini_output')
                  THEN Return(gemini_output')
                  ELSE /\ pc' = "fetch"
                       /\ UNCHANGED <<smart_response, resp>>
  /\ UNCHANGED <<endpoint, body, user_message, mood, random_quote>>

\* get_smart_quran_response: random_quote = get_random_quran_quote()
Fetch ==
  /\ pc = "fetch"
  /\ \E api \in ApiAnswers : \E pick \in Picks(api) :
       /\ random_quote' = get_random_quran_quote(api, pick)
       /\ calls' = Append(calls, Call("composer", "fetch", api.ok /\ pick # 0, random_quote'))
  /\ pc' = "stage2"
  /\ UNCHANGED <<endpoint, body, user_message, mood, gemini_output, prompt,
                 smart_response, resp>>

\* get_smart_quran_response: the second model call
Stage2 ==
  /\ pc = "stage2"
  /\ prompt' = PromptExplainRandom(mood, user_message, random_quote)
  /\ \E o \in ModelOutcomes(Stage2Replies(random_quote)) :
       /\ calls' = Append(calls, Call("composer", "model", o.ok, o.text))
       /\ IF ~o.ok
          THEN /\ pc' = "except"
               /\ UNCHANGED <<smart_response, resp>>
          ELSE Return(Strip(o.text))
  /\ UNCHANGED <<endpoint, body, user_message, mood, gemini_output, random_quote>>

\* get_smart_quran_response: the except clause
ExceptFetch ==
  /\ pc = "except"
  /\ \E api \in ApiAnswers : \E pick \in Picks(api) :
       LET fallback == get_random_quran_quote(api, pick) IN
       /\ calls' = Append(calls, Call("composer", "fetch", api.ok /\ pick # 0, fallback))
       /\ Return(TailoredApology \o fallback)
  /\ UNCHANGED <<endpoint, body, user_message, mood, gemini_output, random_quote, prompt>>

\* the response is sent; nothing of the request is kept
Finish ==
  /\ pc = "done"
  /\ pc' = "idle"
  /\ endpoint' = ""
  /\ body' = JNull
  /\ user_message' = <<>>
  /\ mood' = <<>>
  /\ gemini_output' = <<>>
  /\ random_quote' = <<>>
  /\ prompt' = <<>>
  /\ calls' = <<>>
  /\ smart_response' = <<>>
  /\ resp' = NoResp

Next ==
  \/ Request
  \/ HandleTelexRpc
  \/ HandleAgent
  \/ DetectMood
  \/ Stage1
  \/ Fetch
  \/ Stage2
  \/ ExceptFetch
  \/ Finish

Spec == Init /\ [][Next]_vars

-----------------------------------------------------------------------------
(* The payload extractor alone, on every payload of Payloads *)

InitExtract ==
  /\ pc = "payload"
  /\ endpoint = ""
  /\ body \in Payloads
  /\ user_message = <<>>
  /\ mood = <<>>
  /\ gemini_output = <<>>
  /\ random_quote = <<>>
  /\ prompt = <<>>
  /\ calls = <<>>
  /\ smart_response = <<>>
  /\ resp = NoResp

Extract ==
  /\ pc = "payload"
  /\ user_message' = extract_user_message_generic(body)
  /\ pc' = "extracted"
  /\ UNCHANGED <<endpoint, body, mood, gemini_output, random_quote, prompt, calls,
                 smart_response, resp>>

NextExtract == Extract

SpecExtract == InitExtract /\ [][NextExtract]_vars

-----------------------------------------------------------------------------
(* Views of the call log *)

\* the calls get_smart_quran_response made, in order
ComposerCalls == SelectSeq(calls, LAMBDA c : c.by = "composer")

ComposerModelCalls == SelectSeq(ComposerCalls, LAMBDA c : c.fn = "model")

ComposerFetchCalls == SelectSeq(ComposerCalls, LAMBDA c : c.fn = "fetch")

\* get_smart_quran_response was called and has returned
ComposerReturned == pc = "done" /\ ComposerCalls # <<>>

\* stage 1 got a reply from the model (its call did not raise)
Stage1Replied == ComposerCalls # <<>> /\ ComposerCalls[1].ok

-----------------------------------------------------------------------------
(* Claims *)

\* C1: whenever stage 1 fails its success test and the Quote Fetcher returns
\* its apology text instead of a quotation, the composer returns that apology
\* text directly and makes no second model call.
C1_ApologyShortCircuit ==
  (/\ ComposerReturned
   /\ Stage1Replied
   /\ Len(ComposerCalls) >= 2
   /\ ComposerCalls[2].fn = "fetch"
   /\ ComposerCalls[2].out = FetchApology)
  => /\ smart_response = FetchApology
     /\ Len(ComposerModelCalls) = 1

\* C2: the stage-1 reply is returned verbatim (trimmed) if and only if it
\* does not contain NO_VERSE_FOUND and contains both "Verse:" and
\* "Explanation:"; in that case the Quote Fetcher is never called and the
\* composer makes exactly one model call.
C2_Stage1ReturnedIffAccepted ==
  Stage1Replied =>
    LET reply == ComposerCalls[1].out
        wellFormed ==
          /\ ~Contains(reply, NO_VERSE_FOUND)
          /\ Contains(reply, VerseLabel)
          /\ Contains(reply, ExplanationLabel)
        returnedAtOnce == pc = "done" /\ Len(ComposerCalls) = 1
    IN /\ wellFormed <=> returnedAtOnce
       /\ returnedAtOnce =>
            /\ smart_response = Strip(reply)
            /\ resp.text = Strip(reply)
            /\ ComposerFetchCalls = <<>>
            /\ Len(ComposerModelCalls) = 1

\* C2 witness: a well-formed reply with blanks around it came back trimmed
C2_Witness ==
  /\ ComposerReturned
  /\ Len(ComposerCalls) = 1
  /\ ComposerCalls[1].ok
  /\ smart_response # ComposerCalls[1].out
  /\ smart_response = Strip(ComposerCalls[1].out)

\* C3 as stated: a stage-1 reply equal to NO_VERSE_FOUND triggers exactly one
\* Quote Fetcher call followed by exactly one more model call, and the final
\* output contains the fetched quotation text.
C3_OutputContainsQuote ==
  (ComposerReturned /\ Stage1Replied /\ ComposerCalls[1].out = NO_VERSE_FOUND)
  => /\ Len(ComposerFetchCalls) = 1
     /\ Len(ComposerModelCalls) = 2
     /\ ComposerCalls[2].fn = "fetch"
     /\ ComposerCalls[3].fn = "model"
     /\ Contains(smart_response, ComposerCalls[2].out)

\* C3 amended: a stage-1 reply equal to NO_VERSE_FOUND triggers one Quote
\* Fetcher call followed by one more model call, whose prompt holds the
\* fetched text; when that call returns, its trimmed reply is the output and
\* nothing else is called; when it raises, the Quote Fetcher is called once
\* more and the output is the apology followed by what that call gave.
C3_FallbackChain ==
  (Stage1Replied /\ ComposerCalls[1].out = NO_VERSE_FOUND)
  => LET cc == ComposerCalls
         n == Len(ComposerCalls)
     IN /\ n <= 4
        /\ n = 1 => pc = "fetch"
        /\ n >= 2 => cc[2].fn = "fetch"
        /\ n = 2 => pc = "stage2"
        /\ n >= 3 => cc[3].fn = "model" /\ Contains(prompt, cc[2].out)
        /\ (n = 3 /\ cc[3].ok) => pc = "done" /\ smart_response = Strip(cc[3].out)
        /\ (n = 3 /\ ~cc[3].ok) => pc = "except"
        /\ n = 4 => /\ ~cc[3].ok
                    /\ cc[4].fn = "fetch"
                    /\ pc = "done"
                    /\ smart_response = TailoredApology \o cc[4].out

\* C3 witness: the fallback ran to its end on a reply that does not repeat
\* the quotation
C3_Witness ==
  /\ ComposerReturned
  /\ Stage1Replied
  /\ ComposerCalls[1].out = NO_VERSE_FOUND
  /\ Len(ComposerCalls) = 3
  /\ ComposerCalls[2].ok
  /\ ComposerCalls[3].ok
  /\ ~Contains(smart_response, ComposerCalls[2].out)

\* C4: the composer never passes an error on: whatever fails among the two
\* model calls and the text API, the handler answers 200 with the composer's
\* text; when a model call raises in either stage, the Quote Fetcher is called
\* once more and the output is the apology followed by that quotation, which
\* is a fixed apology when that fetch failed too.
C4_FailuresAbsorbed ==
  LET cc == ComposerCalls
      n == Len(ComposerCalls)
      failed == {i \in 1..n : cc[i].fn = "model" /\ ~cc[i].ok}
  IN /\ ComposerReturned =>
          /\ resp.kind \in {"rpc_result", "generic"}
          /\ resp.status = 200
          /\ resp.text = smart_response
     /\ \A i \in failed :
          /\ i = n => pc = "except"
          /\ i < n =>
               /\ n = i + 1
               /\ cc[n].fn = "fetch"
               /\ pc = "done"
               /\ smart_response = TailoredApology \o cc[n].out
               /\ ~cc[n].ok => smart_response = TailoredApology \o FetchApology

\* C4 witness: the text API failed, then the second model call raised, then
\* the text API failed again
C4_Witness ==
  /\ ComposerReturned
  /\ Len(ComposerCalls) = 4
  /\ ~ComposerCalls[2].ok
  /\ ~ComposerCalls[3].ok
  /\ ~ComposerCalls[4].ok
  /\ resp.status = 200

\* C10: the Mood Classifier returns the first label, in the order of the 15
\* labels, that occurs in the lower-cased reply, "unknown" when none does and
\* when the model call fails: always one of the 15 labels or "unknown".
C10_FirstLabelInDeclaredOrder ==
  calls # <<>> =>
    LET c == calls[1]
        hits == {i \in 1..Len(MOOD_MAPPING) : Contains(Lower(c.out), MOOD_MAPPING[i])}
        first == CHOOSE i \in hits : \A j \in hits : i <= j
    IN /\ c.by = "detect_mood"
       /\ Len(MOOD_MAPPING) = 15
       /\ mood = (IF ~c.ok \/ hits = {} THEN Unknown ELSE MOOD_MAPPING[first])
       /\ mood \in {MOOD_MAPPING[i] : i \in 1..15} \cup {Unknown}

\* C10 witness: the reply names "sad" before "happy"; "happy" is declared first
C10_Witness ==
  /\ calls # <<>>
  /\ calls[1].ok
  /\ Contains(Lower(calls[1].out), MOOD_MAPPING[2])
  /\ mood = MOOD_MAPPING[1]

\* C5: on both endpoints, whenever the lower-cased user message contains
\* "hello", "hi" or "hey" anywhere, the handler returns the fixed greeting and
\* calls neither the Mood Classifier, the Response Composer, the model nor
\* the Quote Fetcher.
C5_GreetingShortCircuit ==
  LET low == Lower(user_message) IN
  (Contains(low, <<"h", "e", "l", "l", "o">>) \/ Contains(low, <<"h", "i">>) \/ Contains(low, <<"h", "e", "y">>))
  => /\ pc = "done"
     /\ resp.kind = (IF endpoint = "/" THEN "rpc_result" ELSE "generic")
     /\ resp.status = 200
     /\ resp.text = GreetingResponse
     /\ calls = <<>>
     /\ smart_response = <<>>

\* C5 witness: "hi" inside another word, on the generic endpoint
C5_Witness ==
  /\ pc = "done"
  /\ endpoint = "/agent"
  /\ user_message = <<"t", "h", "i", "s">>
  /\ resp.text = GreetingResponse

\* the request asks the JSON-RPC endpoint for message/send in version 2.0
AsksMessageSend ==
  /\ IsDict(body)
  /\ Get(body, "method") = JStr(<<"m", "e", "s", "s", "a", "g", "e", "/", "s", "e", "n", "d">>)
  /\ Has(body, "jsonrpc") => Get(body, "jsonrpc") = JStr(<<"2", ".", "0">>)

\* C6: on both endpoints, every request whose user text is empty or cannot
\* be extracted gets a 400-class response carrying the fixed "I didn't receive
\* a clear message" text, whatever the shape of its body.  (Bodies that are
\* not JSON are left to C8.)
C6_NoTextGives400 ==
  (/\ pc = "done"
   /\ body # NotJson
   /\ user_message = <<>>
   /\ endpoint = "/" => AsksMessageSend)
  => /\ resp.status = 400
     /\ resp.text = NoClearMessage

\* C7: on the JSON-RPC endpoint, every request with a method other than
\* message/send, or a jsonrpc version other than "2.0", is answered with a
\* JSON-RPC error object (code -32601 "Method not found", respectively code
\* -32600), never with a 500.
C7_RpcErrorObjects ==
  LET badVersion == Has(body, "jsonrpc") /\ Get(body, "jsonrpc") # JStr(<<"2", ".", "0">>)
      badMethod == IsStr(Get(body, "method")) /\ Get(body, "method") # JStr(<<"m", "e", "s", "s", "a", "g", "e", "/", "s", "e", "n", "d">>)
  IN (pc = "done" /\ endpoint = "/" /\ IsDict(body) /\ (badVersion \/ badMethod))
     => /\ resp.kind = "rpc_error"
        /\ resp.status # 500
        /\ resp.code = (IF badVersion THEN -32600 ELSE -32601)
        /\ ~badVersion => resp.text = MethodNotFoundMessage

\* C8: in both handlers, any exception not otherwise handled, a body that is
\* not JSON or not a JSON object included, gives the generic 500 with the
\* fixed internal-error message; no exception leaves the handler.
C8_Generic500 ==
  pc = "done" =>
    /\ resp.kind # "escaped"
    /\ body = NotJson => resp.status = 500 /\ resp.text = InternalErrorMessage

-----------------------------------------------------------------------------
(* C9: the extractor's strategies, stated on the payload *)

Max(set) == CHOOSE x \in set : \A y \in set : y <= x

Min(set) == CHOOSE x \in set : \A y \in set : x <= y

\* the first element of a non-empty list under "messages", if there is one
C9_HasFirst(p) ==
  IsDict(p) /\ IsList(Get(p, "messages")) /\ Get(p, "messages").kv # <<>>

C9_First(p) == Get(p, "messages").kv[1].v

\* the inner messages of the nested-list shape (none when the shape is absent)
C9_Inner(p) ==
  IF C9_HasFirst(p) /\ IsDict(C9_First(p)) /\ IsList(Get(C9_First(p), "messages"))
  THEN [i \in 1..Len(Get(C9_First(p), "messages").kv) |-> Get(C9_First(p), "messages").kv[i].v]
  ELSE <<>>

\* the field an entry is read by: the first of text, content, message that
\* is non-empty (null when none is)
C9_Field(entry) ==
  LET fields == <<Get(entry, "text"), Get(entry, "content"), Get(entry, "message")>>
      given == {i \in 1..3 : Truthy(fields[i])}
  IN IF given = {} THEN JNull ELSE fields[Min(given)]

\* the inner entries with a text that is non-empty once cleaned
C9_Hits(p) ==
  {i \in 1..Len(C9_Inner(p)) :
     /\ IsDict(C9_Inner(p)[i])
     /\ IsStr(C9_Field(C9_Inner(p)[i]))
     /\ clean_html_text(C9_Field(C9_Inner(p)[i]).s) # <<>>}

\* the inner entries whose field is non-empty and not a string
C9_NotText(p) ==
  {i \in 1..Len(C9_Inner(p)) :
     /\ IsDict(C9_Inner(p)[i])
     /\ Truthy(C9_Field(C9_Inner(p)[i]))
     /\ ~IsStr(C9_Field(C9_Inner(p)[i]))}

\* the top-level fields message, content, text that hold a string
C9_FlatGiven(p) ==
  {i \in 1..3 : Has(p, <<"message", "content", "text">>[i])
                  /\ IsStr(Get(p, <<"message", "content", "text">>[i]))}

\* the last string under a key named "text", in traversal order, searched
\* from the end: [found, s]
RECURSIVE C9_LastText(_), C9_LastTextUpTo(_, _)
C9_LastText(obj) ==
  IF IsDict(obj) \/ IsList(obj) THEN C9_LastTextUpTo(obj, Len(obj.kv))
  ELSE [found |-> FALSE, s |-> <<>>]

C9_LastTextUpTo(obj, i) ==
  IF i = 0 THEN [found |-> FALSE, s |-> <<>>]
  ELSE LET m == obj.kv[i] IN
       IF IsDict(obj) /\ m.k = "text" /\ IsStr(m.v) /\ Strip(m.v.s) # <<>>
       THEN [found |-> TRUE, s |-> m.v.s]
       ELSE IF C9_LastText(m.v).found THEN C9_LastText(m.v)
       ELSE C9_LastTextUpTo(obj, i - 1)

\* the result of the first strategy that matches, "" when none does
C9_FirstMatch(p) ==
  IF C9_Hits(p) # {}
  THEN clean_html_text(C9_Field(C9_Inner(p)[Max(C9_Hits(p))]).s)
  ELSE IF C9_FlatGiven(p) # {}
  THEN clean_html_text(Get(p, <<"message", "content", "text">>[Min(C9_FlatGiven(p))]).s)
  ELSE IF C9_LastText(p).found
  THEN clean_html_text(C9_LastText(p).s)
  ELSE <<>>

\* the nested-list step raises: the payload or the first element of its
\* messages is not a mapping, or the reverse scan meets an entry whose field
\* is not a string before it meets one with a text
C9_Raises(p) ==
  \/ ~IsDict(p)
  \/ C9_HasFirst(p) /\ ~IsDict(C9_First(p))
  \/ \E b \in C9_NotText(p) : \A h \in C9_Hits(p) : h < b

====
